---- MODULE Spec2Model ----
(***************************************************************************)
(* Model of src/index.js: session authentication over a whole-file         *)
(* credential store (users.json) and per-user files in an S3 bucket.       *)
(*                                                                         *)
(* Strings are sequences of one-character strings, so that prefixes and    *)
(* path.basename are computed and not assumed.  Every handler is split at  *)
(* its await: the part before it and the part after it are each one        *)
(* atomic step of the single-threaded event loop.                          *)
(***************************************************************************)
EXTENDS Integers, Sequences, FiniteSets, TLC

VARIABLES usersFile,   \* ./users.json: does it exist, and the object it holds
          sessions,    \* the session store: session id -> session.user
          objects,     \* the bucket: key -> stored object
          reqs,        \* the requests in flight, one slot each
          last,        \* the request that ended last, with its response
          budget       \* how many more requests the clients will send

vars == <<usersFile, sessions, objects, reqs, last, budget>>

----------------------------------------------------------------------------
(* Bounds and input sets *)

MaxRequests == 3
MaxFileRequests == 5
MaxUploadRequests == 4

ReqIds == {1, 2}
Sessions == {"s1", "s2"}
Salts == {"s1", "s2"}
DefaultSalt == "s0"
Timestamps == {"1"}

Undefined == <<"undefined-value">>

ADMIN == <<"a", "d", "m", "i", "n">>
ALICE == <<"a">>
NESTED == <<"a", "/", "b">>
CTOR == <<"c", "o", "n", "s", "t", "r", "u", "c", "t", "o", "r">>
UNDEF_STR == <<"u", "n", "d", "e", "f", "i", "n", "e", "d">>

PW_R == <<"r">>
PW_Q == <<"q">>

FILE_F == <<"f">>

Usernames == {ADMIN, ALICE, CTOR, Undefined}
Passwords == {PW_R, PW_Q, Undefined}
RegisterPasswords == {PW_Q, Undefined}
FileNames == {FILE_F}
Buffers == {"x"}
NoFileField == [present |-> FALSE, originalname |-> <<>>, buffer |-> ""]
Files == {NoFileField} \cup
         [present : {TRUE}, originalname : FileNames, buffer : Buffers]
ParamNames == {<<"1", "-", "f">>, <<"b", "/", "1", "-", "f">>}

\* the inputs of the runs about two users' files
FileUsers == {ALICE, NESTED}
FilePasswords == {PW_Q}
FileSalts == {"s1"}
FileFiles == [present : {TRUE}, originalname : FileNames, buffer : {"x"}]
FileTimestamps == {"1"}
FileParamNames == {<<"1", "-", "f">>, <<"b", "/", "1", "-", "f">>}

\* inputs of the upload specification: one user, two contents, two clock
\* readings
UploadUsers == {ALICE}
UploadFiles == [present : {TRUE}, originalname : FileNames, buffer : {"x", "y"}]
UploadTimestamps == {"1", "2"}
UploadParamNames == {<<"1", "-", "f">>}

----------------------------------------------------------------------------
(* JavaScript values *)

IsString(v) == v # Undefined

\* String(v), as a property key or inside a template literal
ToStr(v) == IF v = Undefined THEN UNDEF_STR ELSE v

\* the names every object inherits from Object.prototype
ProtoNames == {CTOR}

UndefinedValue == [t |-> "undefined", pw |-> <<>>, salt |-> ""]
FunctionValue == [t |-> "function", pw |-> <<>>, salt |-> ""]

\* a bcrypt hash string: it fixes the password and the salt it was made with
Hash(p, s) == [t |-> "string", pw |-> p, salt |-> s]

\* users[username]
Lookup(users, username) ==
    LET k == ToStr(username) IN
    IF k \in DOMAIN users THEN users[k]
    ELSE IF k \in ProtoNames THEN FunctionValue
    ELSE UndefinedValue

Truthy(v) == v.t # "undefined"

\* a check that never finds the user
AlreadyExistsNever(users, username) == FALSE

\* addUser's check: if (users[username]) throw
AlreadyExists(users, username) == Truthy(Lookup(users, username))

\* users[username] = hash
Assign(users, username, h) ==
    LET k == ToStr(username) IN
    [x \in DOMAIN users \cup {k} |-> IF x = k THEN h ELSE users[x]]

\* bcrypt.hash / bcrypt.compare reject anything that is not a string
HashArgsOk(p) == IsString(p)
CompareArgsOk(p, h) == IsString(p) /\ h.t = "string"
Compare(p, h) == h.pw = p

----------------------------------------------------------------------------
(* Credential store *)

NoUsersFile == [exists |-> FALSE, users |-> <<>>]

\* the file after loadUsers() ran: created with the default account if absent
\* a load that creates the file without the default account
loadUsersEmpty(f) ==
    IF f.exists THEN f ELSE [exists |-> TRUE, users |-> <<>>]

loadUsers(f) ==
    IF f.exists THEN f
    ELSE [exists |-> TRUE, users |-> [k \in {ADMIN} |-> Hash(PW_R, DefaultSalt)]]

\* a save that keeps the records the file already holds
saveUsersMerged(users) ==
    [exists |-> TRUE,
     users |-> [k \in DOMAIN users \cup DOMAIN usersFile.users |->
                  IF k \in DOMAIN usersFile.users THEN usersFile.users[k]
                  ELSE users[k]]]

saveUsers(users) == [exists |-> TRUE, users |-> users]

----------------------------------------------------------------------------
(* Session gate *)

Anonymous == [bound |-> FALSE, username |-> <<>>]
Identity(u) == [bound |-> TRUE, username |-> u]

\* a gate that lets every request through
requireLoginOpen(user) == TRUE

\* requireLogin lets the request through
requireLogin(user) == user.bound

----------------------------------------------------------------------------
(* Namespace mapper *)

Slash == "/"

IsPrefix(p, s) == Len(p) <= Len(s) /\ SubSeq(s, 1, Len(p)) = p

keyForUpload(username, ts, originalname) ==
    ToStr(username) \o <<Slash>> \o <<ts>> \o <<"-">> \o originalname

\* a key taken from the request alone
keyForFileBare(username, name) == name

keyForFile(username, name) == ToStr(username) \o <<Slash>> \o name

listPrefix(username) == ToStr(username) \o <<Slash>>

RECURSIVE StripTrailing(_)
StripTrailing(s) ==
    IF Len(s) > 0 /\ s[Len(s)] = Slash
    THEN StripTrailing(SubSeq(s, 1, Len(s) - 1)) ELSE s

RECURSIVE LastSegment(_)
LastSegment(s) ==
    IF \E i \in 1..Len(s) : s[i] = Slash
    THEN LastSegment(Tail(s)) ELSE s

\* path.basename(key)
basename(key) == LastSegment(StripTrailing(key))

\* s contains t as a substring
Contains(s, t) ==
    \E i \in 0..(Len(s) - Len(t)) : SubSeq(s, i + 1, i + Len(t)) = t

----------------------------------------------------------------------------
(* Requests and responses *)

NoKey == <<>>
NoFiles == <<>>

Idle == [kind |-> "none", pc |-> "idle", sid |-> "s1", user |-> Anonymous,
         username |-> Undefined, password |-> Undefined,
         file |-> NoFileField, name |-> <<>>, key |-> NoKey,
         users |-> <<>>, stored |-> UndefinedValue,
         existed |-> FALSE, known |-> FALSE, own |-> FALSE, failed |-> FALSE,
         overwrote |-> FALSE]

NoResponse == [status |-> 0, success |-> "none", error |-> "", files |-> NoFiles,
               hasUrl |-> FALSE, url |-> NoKey, message |-> ""]

Json(status, success, error) ==
    [NoResponse EXCEPT !.status = status, !.success = success, !.error = error]

\* what is remembered of a request that ended: the request, the number of
\* responses it sent, the number of storage calls it made, its response
Ended(req, nresp, ncalls, resp) ==
    [req |-> req, responses |-> nresp, calls |-> ncalls, resp |-> resp]

NoLast == Ended(Idle, 0, 0, NoResponse)

Free(r) == reqs[r].pc = "idle"

\* a request is received in the lowest free slot
CanStart(r) ==
    /\ budget > 0
    /\ Free(r)
    /\ \A q \in ReqIds : q < r => ~Free(q)

End(r, req, nresp, ncalls, resp) ==
    /\ reqs' = [reqs EXCEPT ![r] = Idle]
    /\ last' = Ended(req, nresp, ncalls, resp)

NothingReceived == last = NoLast /\ \A r \in ReqIds : Free(r)

\* session ids are opaque tokens: the first request ever received is taken
\* to carry the one called "s1"
Receive(r, sid) == CanStart(r) /\ (NothingReceived => sid = "s1")

Request(kind, sid) ==
    [Idle EXCEPT !.kind = kind, !.sid = sid, !.user = sessions[sid]]

\* a fresh deployment: no users.json, no session, an empty bucket
Fresh(n) ==
    /\ usersFile = NoUsersFile
    /\ sessions = [s \in Sessions |-> Anonymous]
    /\ objects = <<>>
    /\ reqs = [r \in ReqIds |-> Idle]
    /\ last = NoLast
    /\ budget = n

Init == Fresh(MaxRequests)

----------------------------------------------------------------------------
(* GET / *)

Root(r) ==
    /\ CanStart(r)
    /\ budget' = budget - 1
    /\ last' = Ended([Idle EXCEPT !.kind = "root"], 1, 0,
                     [NoResponse EXCEPT !.status = 200,
                                        !.message = "Radhe Krishna Backend Running"])
    /\ UNCHANGED <<usersFile, sessions, objects, reqs>>

----------------------------------------------------------------------------
(* POST /register *)

\* addUser up to its await: load, existence check, start of bcrypt.hash
RegisterStart(r, sid, username, password) ==
    /\ Receive(r, sid)
    /\  LET f == loadUsers(usersFile)
            req == [Request("register", sid) EXCEPT
                        !.username = username, !.password = password,
                        !.users = f.users,
                        !.existed = usersFile.exists,
                        !.known = ToStr(username) \in DOMAIN f.users]
        IN  /\ usersFile' = f
            /\ budget' = budget - 1
            /\ IF AlreadyExists(f.users, username)
               THEN /\ reqs' = reqs
                    /\ last' = Ended(req, 1, 0,
                                     Json(400, "false", "User already exists"))
               ELSE IF ~HashArgsOk(password)
               THEN /\ reqs' = reqs
                    /\ last' = Ended(req, 1, 0,
                                     Json(400, "false", "Illegal arguments"))
               ELSE /\ reqs' = [reqs EXCEPT ![r] = [req EXCEPT !.pc = "hashing"]]
                    /\ last' = last
    /\ UNCHANGED <<sessions, objects>>

\* addUser after its await: assign into the copy loaded before, save it;
\* then the handler binds the session and answers
RegisterFinish(r, s) ==
    /\ reqs[r].pc = "hashing"
    /\ LET req == reqs[r]
           users == Assign(req.users, req.username, Hash(req.password, s))
       IN  /\ usersFile' = saveUsers(users)
           /\ sessions' = [sessions EXCEPT ![req.sid] = Identity(req.username)]
           /\ End(r, [req EXCEPT !.users = users,
                                  !.overwrote =
                                      /\ ~req.known
                                      /\ ToStr(req.username) \in
                                             DOMAIN usersFile.users],
                  1, 0, Json(200, "true", ""))
    /\ UNCHANGED <<objects, budget>>

----------------------------------------------------------------------------
(* POST /login *)

\* findUser, then the start of bcrypt.compare
LoginStart(r, sid, username, password) ==
    /\ Receive(r, sid)
    /\  LET f == loadUsers(usersFile)
            v == Lookup(f.users, username)
            req == [Request("login", sid) EXCEPT
                        !.username = username, !.password = password,
                        !.stored = v,
                        !.existed = usersFile.exists,
                        !.known = ToStr(username) \in DOMAIN f.users]
        IN  /\ usersFile' = f
            /\ budget' = budget - 1
            /\ IF ~Truthy(v)
               THEN /\ reqs' = reqs
                    /\ last' = Ended(req, 1, 0, Json(401, "false", ""))
               ELSE /\ reqs' = [reqs EXCEPT ![r] = [req EXCEPT !.pc = "comparing"]]
                    /\ last' = last
    /\ UNCHANGED <<sessions, objects>>

\* a login that drops the session's identity when the password is wrong
LoginFinishClears(r) ==
    /\ reqs[r].pc = "comparing"
    /\ LET req == reqs[r] IN
        IF ~CompareArgsOk(req.password, req.stored)
        THEN /\ End(r, req, 0, 0, NoResponse)
             /\ sessions' = sessions
        ELSE IF ~Compare(req.password, req.stored)
        THEN /\ End(r, req, 1, 0, Json(401, "false", ""))
             /\ sessions' = [sessions EXCEPT ![req.sid] = Anonymous]
        ELSE /\ End(r, req, 1, 0, Json(200, "true", ""))
             /\ sessions' = [sessions EXCEPT ![req.sid] = Identity(req.username)]
    /\ UNCHANGED <<usersFile, objects, budget>>

\* bcrypt.compare settles: it rejects (nothing catches it and the handler
\* ends without a response), or answers false, or true
LoginFinish(r) ==
    /\ reqs[r].pc = "comparing"
    /\ LET req == reqs[r] IN
        IF ~CompareArgsOk(req.password, req.stored)
        THEN /\ End(r, req, 0, 0, NoResponse)
             /\ sessions' = sessions
        ELSE IF ~Compare(req.password, req.stored)
        THEN /\ End(r, req, 1, 0, Json(401, "false", ""))
             /\ sessions' = sessions
        ELSE /\ End(r, req, 1, 0, Json(200, "true", ""))
             /\ sessions' = [sessions EXCEPT ![req.sid] = Identity(req.username)]
    /\ UNCHANGED <<usersFile, objects, budget>>

----------------------------------------------------------------------------
(* POST /logout *)

\* a logout that answers and keeps the session
LogoutKeepsSession(r, sid) ==
    /\ Receive(r, sid)
    /\ budget' = budget - 1
    /\ last' = Ended(Request("logout", sid), 1, 0, Json(200, "true", ""))
    /\ UNCHANGED <<usersFile, sessions, objects, reqs>>

Logout(r, sid) ==
    /\ Receive(r, sid)
    /\ budget' = budget - 1
    /\ sessions' = [sessions EXCEPT ![sid] = Anonymous]
    /\ last' = Ended(Request("logout", sid), 1, 0, Json(200, "true", ""))
    /\ UNCHANGED <<usersFile, objects, reqs>>

----------------------------------------------------------------------------
(* File routes *)

LoginRequired == Json(401, "false", "Login required")

\* an upload failure answered as a success
UploadFailedMasked == Json(200, "true", "")

UploadFailed == Json(500, "false", "Upload failed")
ListFailed == [NoResponse EXCEPT !.status = 500]
LinkFailed == [NoResponse EXCEPT !.status = 500]
DeleteFailed == Json(500, "false", "")

\* the object a PutObjectCommand stores; owner remembers whose upload it was
Object(body, owner) == [body |-> body, owner |-> owner]

\* a put that refuses to replace an object
PutIfAbsent(bucket, key, obj) ==
    [k \in DOMAIN bucket \cup {key} |->
        IF k \in DOMAIN bucket THEN bucket[k] ELSE obj]

Put(bucket, key, obj) ==
    [k \in DOMAIN bucket \cup {key} |-> IF k = key THEN obj ELSE bucket[k]]

Remove(bucket, key) == [k \in DOMAIN bucket \ {key} |-> bucket[k]]

\* the bucket holds key, stored by an upload of username
Owns(bucket, key, username) ==
    key \in DOMAIN bucket /\ bucket[key].owner = ToStr(username)

\* ListObjectsV2 with a Prefix
Contents(bucket, prefix) == {k \in DOMAIN bucket : IsPrefix(prefix, k)}

\* the array GET /files answers with, one entry per listed key
FilesOf(bucket, prefix) == [k \in Contents(bucket, prefix) |-> basename(k)]

\* requireLogin rejects the request: 401, and the route's handler never runs
Rejected(r, kind, sid) ==
    /\ Receive(r, sid)
    /\ ~requireLogin(sessions[sid])
    /\ budget' = budget - 1
    /\ last' = Ended(Request(kind, sid), 1, 0, LoginRequired)
    /\ UNCHANGED <<usersFile, sessions, objects, reqs>>

\* POST /upload up to its await: gate, key, PutObjectCommand sent.
\* Without a file field req.file is undefined and the handler throws
\* before its try: it ends without a response.
UploadStart(r, sid, file, ts) ==
    /\ Receive(r, sid)
    /\ requireLogin(sessions[sid])
    /\ budget' = budget - 1
    /\ LET req == [Request("upload", sid) EXCEPT !.file = file] IN
        IF ~file.present
        THEN /\ reqs' = reqs
             /\ last' = Ended(req, 0, 0, NoResponse)
        ELSE /\ reqs' = [reqs EXCEPT ![r] =
                    [req EXCEPT !.pc = "putting",
                                !.key = keyForUpload(req.user.username, ts,
                                                     file.originalname)]]
             /\ last' = last
    /\ UNCHANGED <<usersFile, sessions, objects>>

UploadFinish(r, ok) ==
    /\ reqs[r].pc = "putting"
    /\ LET req == reqs[r] IN
        IF ok
        THEN /\ objects' = Put(objects, req.key,
                               Object(req.file.buffer, ToStr(req.user.username)))
             /\ End(r, [req EXCEPT !.overwrote =
                                      /\ req.key \in DOMAIN objects
                                      /\ objects[req.key].body # req.file.buffer],
                    1, 1, Json(200, "true", ""))
        ELSE /\ objects' = objects
             /\ End(r, [req EXCEPT !.failed = TRUE], 1, 1, UploadFailed)
    /\ UNCHANGED <<usersFile, sessions, budget>>

\* GET /files
ListStart(r, sid) ==
    /\ Receive(r, sid)
    /\ requireLogin(sessions[sid])
    /\ budget' = budget - 1
    /\ reqs' = [reqs EXCEPT ![r] =
            [Request("list", sid) EXCEPT
                !.pc = "listing", !.key = listPrefix(sessions[sid].username)]]
    /\ UNCHANGED <<usersFile, sessions, objects, last>>

ListFinish(r, ok) ==
    /\ reqs[r].pc = "listing"
    /\ LET req == reqs[r] IN
        IF ok
        THEN End(r, req, 1, 1, [NoResponse EXCEPT !.status = 200,
                                    !.files = FilesOf(objects, req.key)])
        ELSE End(r, [req EXCEPT !.failed = TRUE], 1, 1, ListFailed)
    /\ UNCHANGED <<usersFile, sessions, objects, budget>>

\* GET /file/:name
DownloadStart(r, sid, name) ==
    /\ Receive(r, sid)
    /\ requireLogin(sessions[sid])
    /\ budget' = budget - 1
    /\ reqs' = [reqs EXCEPT ![r] =
            [Request("download", sid) EXCEPT
                !.pc = "signing", !.name = name,
                !.key = keyForFile(sessions[sid].username, name)]]
    /\ UNCHANGED <<usersFile, sessions, objects, last>>

DownloadFinish(r, ok) ==
    /\ reqs[r].pc = "signing"
    /\ LET req == reqs[r] IN
        IF ok
        THEN End(r, req, 1, 1, [NoResponse EXCEPT !.status = 200,
                                    !.hasUrl = TRUE, !.url = req.key])
        ELSE End(r, [req EXCEPT !.failed = TRUE], 1, 1, LinkFailed)
    /\ UNCHANGED <<usersFile, sessions, objects, budget>>

\* DELETE /file/:name
DeleteStart(r, sid, name) ==
    /\ Receive(r, sid)
    /\ requireLogin(sessions[sid])
    /\ budget' = budget - 1
    /\ reqs' = [reqs EXCEPT ![r] =
            [Request("delete", sid) EXCEPT
                !.pc = "deleting", !.name = name,
                !.key = keyForFile(sessions[sid].username, name)]]
    /\ UNCHANGED <<usersFile, sessions, objects, last>>

DeleteFinish(r, ok) ==
    /\ reqs[r].pc = "deleting"
    /\ LET req == reqs[r] IN
        IF ok
        THEN /\ objects' = Remove(objects, req.key)
             /\ End(r, [req EXCEPT !.own = Owns(objects, req.key, req.user.username)],
                    1, 1, Json(200, "true", ""))
        ELSE /\ objects' = objects
             /\ End(r, [req EXCEPT !.failed = TRUE], 1, 1, DeleteFailed)
    /\ UNCHANGED <<usersFile, sessions, budget>>

----------------------------------------------------------------------------
(* The server *)

GatedKinds == {"upload", "list", "download", "delete"}

\* the server, its clients drawing their inputs from the given sets
\* (U usernames, PR passwords sent to register, P passwords sent to login,
\* S salts, F uploaded files, T timestamps, N names in /file/:name)
Serve(U, PR, P, S, F, T, N) ==
    \/ \E r \in ReqIds : Root(r)
    \/ \E r \in ReqIds, sid \in Sessions, u \in U, p \in PR :
          RegisterStart(r, sid, u, p)
    \/ \E r \in ReqIds, s \in S : RegisterFinish(r, s)
    \/ \E r \in ReqIds, sid \in Sessions, u \in U, p \in P :
          LoginStart(r, sid, u, p)
    \/ \E r \in ReqIds : LoginFinish(r)
    \/ \E r \in ReqIds, sid \in Sessions : Logout(r, sid)
    \/ \E r \in ReqIds, sid \in Sessions, kind \in GatedKinds : Rejected(r, kind, sid)
    \/ \E r \in ReqIds, sid \in Sessions, f \in F, ts \in T :
          UploadStart(r, sid, f, ts)
    \/ \E r \in ReqIds, ok \in BOOLEAN : UploadFinish(r, ok)
    \/ \E r \in ReqIds, sid \in Sessions : ListStart(r, sid)
    \/ \E r \in ReqIds, ok \in BOOLEAN : ListFinish(r, ok)
    \/ \E r \in ReqIds, sid \in Sessions, n \in N : DownloadStart(r, sid, n)
    \/ \E r \in ReqIds, ok \in BOOLEAN : DownloadFinish(r, ok)
    \/ \E r \in ReqIds, sid \in Sessions, n \in N : DeleteStart(r, sid, n)
    \/ \E r \in ReqIds, ok \in BOOLEAN : DeleteFinish(r, ok)

Next ==
    Serve(Usernames, RegisterPasswords, Passwords, Salts, Files, Timestamps,
          ParamNames)

Spec == Init /\ [][Next]_vars

InitFiles == Fresh(MaxFileRequests)

NextFiles ==
    Serve(FileUsers, FilePasswords, FilePasswords, FileSalts, FileFiles,
          FileTimestamps, FileParamNames)

SpecFiles == InitFiles /\ [][NextFiles]_vars

InitUploads == Fresh(MaxUploadRequests)

NextUploads ==
    Serve(UploadUsers, FilePasswords, FilePasswords, FileSalts, UploadFiles,
          UploadTimestamps, UploadParamNames)

SpecUploads == InitUploads /\ [][NextUploads]_vars

----------------------------------------------------------------------------
(* Properties *)

\* this step ends a request: last' describes it
Completes ==
    \/ budget' = budget - 1 /\ reqs' = reqs
    \/ \E r \in ReqIds : reqs[r].pc # "idle" /\ reqs'[r].pc = "idle"

\* this step receives a request and ends it at once
EndsAtOnce == budget' = budget - 1 /\ reqs' = reqs

Registered(u) == usersFile.exists /\ ToStr(u) \in DOMAIN usersFile.users

DisplayNames(bucket, prefix) == {basename(k) : k \in Contents(bucket, prefix)}

\* C1: a request to POST /upload, GET /files, GET /file/:name or
\* DELETE /file/:name on a session with no bound identity is answered
\* 401 {success:false, error:"Login required"}, once, and issues no storage
\* call: none has been issued when it ends, and none is ever in flight for it.
C1_GateRejects ==
    /\ \A r \in ReqIds : reqs[r].kind \in GatedKinds => reqs[r].user.bound
    /\ (last.req.kind \in GatedKinds /\ ~last.req.user.bound) =>
          /\ last.resp = LoginRequired
          /\ last.responses = 1
          /\ last.calls = 0

\* a gated request was rejected after an account was registered and every
\* session was logged out again
C1_Witness ==
    /\ last.req.kind \in GatedKinds
    /\ ~last.req.user.bound
    /\ last.resp.status = 401
    /\ Registered(ALICE)
    /\ \A s \in Sessions : ~sessions[s].bound

\* C2: isolation: every entry of a list answered for identity u2 is a file
\* that an upload under u2 stored; a file uploaded under another identity
\* u1 is never included.
C2_Isolation ==
    (last.req.kind = "list" /\ last.resp.status = 200) =>
        \A k \in DOMAIN last.resp.files :
            k \in DOMAIN objects =>
                objects[k].owner = ToStr(last.req.user.username)

\* C3: register(u, p) for a username u that is not registered and a
\* password p succeeds and stores u; authenticate(u, p) against the hash
\* stored for (u, p) succeeds and binds the session to u.
C3_RegisterThenLogin ==
    /\ (/\ last.req.kind = "register"
        /\ IsString(last.req.username)
        /\ IsString(last.req.password)
        /\ ~last.req.known) =>
          /\ last.resp = Json(200, "true", "")
          /\ Registered(last.req.username)
          /\ Compare(last.req.password, usersFile.users[last.req.username])
          /\ sessions[last.req.sid] = Identity(last.req.username)
    /\ (/\ last.req.kind = "login"
        /\ last.req.known
        /\ Compare(last.req.password, last.req.stored)) =>
          /\ last.resp = Json(200, "true", "")
          /\ sessions[last.req.sid] = Identity(last.req.username)

\* C4: POST /login with an unknown username, or with a password other than
\* the registered one, is answered 401 {success:false} and leaves the
\* session as it was.
C4_BadLoginUnauthorized ==
    [][(/\ Completes
        /\ last'.req.kind = "login"
        /\ IsString(last'.req.username)
        /\ IsString(last'.req.password)
        /\ \/ ~last'.req.known
           \/ ~Compare(last'.req.password, last'.req.stored)) =>
          /\ last'.resp = Json(401, "false", "")
          /\ last'.responses = 1
          /\ sessions' = sessions]_vars

\* C5: a register call that succeeded has stored a hash of its password for
\* its username; a register call received while its username is stored is
\* answered 400 {success:false, error:"User already exists"} at once and
\* leaves the credential store (and the stored hash) and the sessions
\* unchanged.
C5_SecondRegisterFails ==
    [][/\ (/\ Completes
           /\ last'.req.kind = "register"
           /\ last'.resp.status = 200) =>
             /\ usersFile'.exists
             /\ ToStr(last'.req.username) \in DOMAIN usersFile'.users
             /\ Compare(last'.req.password,
                        usersFile'.users[ToStr(last'.req.username)])
       /\ \A r \in ReqIds, u \in Usernames :
            (/\ budget' = budget - 1
             /\ Registered(u)
             /\ \/ reqs'[r] # reqs[r] /\ reqs'[r].kind = "register"
                                      /\ reqs'[r].username = u
                \/ EndsAtOnce /\ last'.req.kind = "register"
                              /\ last'.req.username = u) =>
               /\ EndsAtOnce
               /\ last'.resp = Json(400, "false", "User already exists")
               /\ last'.responses = 1
               /\ usersFile' = usersFile
               /\ sessions' = sessions]_vars

\* a second register for alice was refused
C5_Witness ==
    /\ last.req.kind = "register"
    /\ last.req.username = ALICE
    /\ last.req.existed
    /\ last.req.known
    /\ last.resp.status = 400
    /\ Registered(ALICE)

\* C6: a user record, once in the credential store, stays there with the
\* same password hash in every later state.
C6_RecordsImmutable ==
    [][\A k \in DOMAIN usersFile.users :
          /\ k \in DOMAIN usersFile'.users
          /\ usersFile'.users[k] = usersFile.users[k]]_vars

\* C7: after upload(u, bytes, name) succeeds the names list(u) shows
\* include one containing name; after u deleted one of its own files by
\* its display name, the names list(u) shows no longer include that name.
C7_RoundTrip ==
    /\ (last.req.kind = "upload" /\ last.resp.status = 200) =>
          \E d \in DisplayNames(objects, listPrefix(last.req.user.username)) :
              Contains(d, last.req.file.originalname)
    /\ (last.req.kind = "delete" /\ last.resp.status = 200 /\ last.req.own) =>
          last.req.name \notin
              DisplayNames(objects, listPrefix(last.req.user.username))

\* C8: a session becomes Authenticated only in a step in which a register
\* or login on that session succeeds, binding it to that request's
\* username; POST /logout always answers {success:true} and leaves its
\* session Anonymous; and a gated request gets past the gate only if its
\* session is Authenticated when it is received.
C8_SessionGate ==
    [][\A s \in Sessions :
        /\ (~sessions[s].bound /\ sessions'[s].bound) =>
              /\ Completes
              /\ last'.req.kind \in {"register", "login"}
              /\ last'.req.sid = s
              /\ last'.resp = Json(200, "true", "")
              /\ sessions'[s] = Identity(last'.req.username)
        /\ (EndsAtOnce /\ last'.req.kind = "logout" /\ last'.req.sid = s) =>
              /\ last'.resp = Json(200, "true", "")
              /\ ~sessions'[s].bound
        /\ \A r \in ReqIds :
              (/\ reqs[r].pc = "idle"
               /\ reqs'[r].kind \in GatedKinds
               /\ reqs'[r].sid = s) => sessions[s].bound
        /\ (/\ EndsAtOnce
            /\ last'.req.kind \in GatedKinds
            /\ last'.req.sid = s
            /\ ~sessions[s].bound) => last'.resp = LoginRequired]_vars

\* a session that was logged out is Anonymous
C8_Witness ==
    /\ last.req.kind = "logout"
    /\ last.req.user.bound
    /\ ~sessions[last.req.sid].bound
    /\ last.resp = Json(200, "true", "")

\* C9: every request that ended has sent exactly one response and has
\* issued at most one storage call.
C9_OneResponse ==
    last.req.kind # "none" => last.responses = 1 /\ last.calls <= 1

\* C10: a storage error during an authenticated request is answered with
\* status 500: [] by list, {url:null} by download-link,
\* {success:false, error:"Upload failed"} by upload, {success:false} by
\* delete; the sessions and the credential store stay as they were.
C10_StorageErrors ==
    [][(Completes /\ last'.req.failed) =>
          /\ last'.resp.status = 500
          /\ last'.responses = 1
          /\ last'.req.kind = "list" => last'.resp.files = NoFiles
                                        /\ last'.resp.success = "none"
          /\ last'.req.kind = "download" => ~last'.resp.hasUrl
          /\ last'.req.kind = "upload" =>
                last'.resp = Json(500, "false", "Upload failed")
          /\ last'.req.kind = "delete" => last'.resp = Json(500, "false", "")
          /\ sessions' = sessions
          /\ usersFile' = usersFile]_vars

\* an upload met a storage error
C10_Witness ==
    /\ last.req.kind = "upload"
    /\ last.req.failed
    /\ last.req.user.bound
    /\ last.resp.status = 500

\* C11: every storage call of upload, list, download-link and delete is
\* issued with a key (or prefix) that begins with the username bound to the
\* request's session when it was received, followed by "/", whatever the
\* :name parameter or the file field holds; and the call keeps that key
\* until the request ends.
C11_KeysScoped ==
    [][\A r \in ReqIds :
        /\ (reqs[r].pc = "idle" /\ reqs'[r].kind \in GatedKinds) =>
              /\ sessions[reqs'[r].sid].bound
              /\ IsPrefix(ToStr(sessions[reqs'[r].sid].username) \o <<"/">>,
                          reqs'[r].key)
        /\ (reqs[r].kind \in GatedKinds /\ reqs'[r].pc = "idle") =>
              /\ last'.calls = 1
              /\ last'.req.key = reqs[r].key
              /\ last'.req.user = reqs[r].user]_vars

\* a delete whose :name holds a "/" was issued under the session's username
C11_Witness ==
    /\ last.req.kind = "delete"
    /\ last.calls = 1
    /\ \E i \in 1..Len(last.req.name) : last.req.name[i] = "/"
    /\ last.req.user = Identity(ALICE)
    /\ last.req.key = <<"a", "/", "b", "/", "1", "-", "f">>

\* C12: a register that found no record when it loaded the store succeeds
\* whatever was written since: it answers success, binds its session to the
\* username and leaves the file equal to its own copy, holding the hash of
\* its own password; so of two racing registers of one username both
\* succeed and the hash written last is the one stored.
C12_LastWriteWins ==
    [][\A r \in ReqIds :
        (reqs[r].kind = "register" /\ reqs'[r].pc = "idle") =>
            /\ last'.resp.status = 200
            /\ last'.resp.success = "true"
            /\ sessions'[reqs[r].sid] = Identity(reqs[r].username)
            /\ usersFile'.users = last'.req.users
            /\ Lookup(usersFile'.users, reqs[r].username).pw = reqs[r].password
            /\ \A u \in DOMAIN usersFile'.users \ {ToStr(reqs[r].username)} :
                  /\ u \in DOMAIN reqs[r].users
                  /\ usersFile'.users[u] = reqs[r].users[u]]_vars

\* both sessions are bound to "a" by two registers that each loaded the
\* store before the other saved; the second save replaced the first record
C12_Witness ==
    /\ last.req.kind = "register"
    /\ last.req.username = ALICE
    /\ last.resp.status = 200
    /\ last.req.overwrote
    /\ \A s \in Sessions : sessions[s] = Identity(ALICE)
    /\ budget = MaxRequests - 2
    /\ Lookup(usersFile.users, ALICE) \in {Hash(last.req.password, s) : s \in Salts}

\* C13: whenever register or login stores an identity into a session, the
\* identity names one username and the credential store holds a record for
\* that username at that moment, in every interleaving of registers and
\* logins.
C13_BoundToRecord ==
    [][\A s \in Sessions :
        (sessions'[s] # sessions[s] /\ sessions'[s].bound) =>
            /\ sessions'[s] = Identity(last'.req.username)
            /\ usersFile'.exists
            /\ ToStr(sessions'[s].username) \in DOMAIN usersFile'.users]_vars

\* C14: an upload that succeeds leaves, under its key, one object holding
\* its own content, whatever was stored there before, and changes no other
\* key; a list that succeeds has one entry for each key under the prefix.
\* So two uploads of one user and file name that read the same clock value
\* both succeed, the later content is the one kept, and list shows one
\* entry for them.
C14_LaterPutWins ==
    [][\A r \in ReqIds :
        (reqs'[r].pc = "idle" /\ last'.resp.status = 200) =>
            /\ reqs[r].kind = "upload" =>
                  /\ last'.resp.success = "true"
                  /\ DOMAIN objects' = DOMAIN objects \cup {reqs[r].key}
                  /\ objects'[reqs[r].key].body = reqs[r].file.buffer
                  /\ \A k \in DOMAIN objects \ {reqs[r].key} :
                        objects'[k] = objects[k]
            /\ reqs[r].kind = "list" =>
                  /\ DOMAIN last'.resp.files =
                        Contents(objects, listPrefix(reqs[r].user.username))
                  /\ \A k \in DOMAIN last'.resp.files :
                        last'.resp.files[k] = basename(k)]_vars

\* the second of two successful uploads of "f" by "a" at clock value "1"
\* replaced the content "x" by "y": one object and one key are left
C14_Witness ==
    /\ last.req.kind = "upload"
    /\ last.resp.status = 200
    /\ last.req.overwrote
    /\ last.req.user = Identity(ALICE)
    /\ last.req.key = keyForUpload(ALICE, "1", FILE_F)
    /\ last.req.file.buffer = "y"
    /\ objects[last.req.key].body = "y"
    /\ Cardinality(Contents(objects, listPrefix(ALICE))) = 1

\* C15: the display name of an upload key is "<ts>-<name>", and keyForFile
\* of the owner and that display name is the key again; so every name a
\* successful list answers with addresses, through keyForFile of the
\* listing user, the very key it was listed for.
C15_NamingRoundTrip ==
    /\ \A u \in FileUsers, ts \in FileTimestamps, n \in FileNames :
          LET k == keyForUpload(u, ts, n) IN
              /\ basename(k) = <<ts, "-">> \o n
              /\ keyForFile(u, basename(k)) = k
    /\ (last.req.kind = "list" /\ last.resp.status = 200) =>
          \A k \in DOMAIN last.resp.files :
              keyForFile(last.req.user.username, last.resp.files[k]) = k

\* C16: the step that creates the credential file creates it with the
\* default account alone, and every register and login loads (so creates)
\* it; the default account stays in the file with its hash ever after;
\* hence, from the fresh system on, a register of "admin" is answered 400
\* "User already exists" at once, and a login of "admin" with the default
\* password is answered 200 and binds the session to "admin".
C16_DefaultAccount ==
    [][/\ (~usersFile.exists /\ usersFile'.exists) =>
             /\ DOMAIN usersFile'.users = {ADMIN}
             /\ Compare(PW_R, usersFile'.users[ADMIN])
       /\ usersFile.exists =>
             /\ usersFile'.exists
             /\ ADMIN \in DOMAIN usersFile'.users
             /\ usersFile'.users[ADMIN] = usersFile.users[ADMIN]
       /\ \A r \in ReqIds :
            (/\ budget' = budget - 1
             /\ \/ reqs'[r] # reqs[r] /\ reqs'[r].kind \in {"register", "login"}
                \/ EndsAtOnce /\ last'.req.kind \in {"register", "login"}) =>
               usersFile'.exists
       /\ \A r \in ReqIds :
            (/\ budget' = budget - 1
             /\ \/ reqs'[r] # reqs[r] /\ reqs'[r].kind = "register"
                                      /\ reqs'[r].username = ADMIN
                \/ EndsAtOnce /\ last'.req.kind = "register"
                              /\ last'.req.username = ADMIN) =>
               /\ EndsAtOnce
               /\ last'.resp = Json(400, "false", "User already exists")
               /\ last'.responses = 1
       /\ (/\ Completes
           /\ last'.req.kind = "login"
           /\ last'.req.username = ADMIN) =>
             /\ last'.req.known
             /\ last'.req.password = PW_R =>
                   /\ last'.resp = Json(200, "true", "")
                   /\ sessions'[last'.req.sid] = Identity(ADMIN)]_vars

\* the first request of a fresh system was a login of "admin" with the
\* default password: it created the file and succeeded
C16_Witness ==
    /\ last.req.kind = "login"
    /\ last.req.username = ADMIN
    /\ last.req.password = PW_R
    /\ ~last.req.existed
    /\ last.resp.status = 200
    /\ sessions[last.req.sid] = Identity(ADMIN)
    /\ DOMAIN usersFile.users = {ADMIN}

\* C17: a download-link or delete request that succeeds under one identity
\* never addresses an object stored by an upload of another username:
\* the key it signs a URL for, or removes, is absent from the bucket or
\* was stored by the requesting identity.
C17_OwnObjectsOnly ==
    [][\A r \in ReqIds :
        (/\ reqs[r].kind \in {"download", "delete"}
         /\ reqs'[r].pc = "idle"
         /\ last'.resp.status = 200
         /\ reqs[r].key \in DOMAIN objects) =>
            objects[reqs[r].key].owner = ToStr(reqs[r].user.username)]_vars

\* a login answered 401 or a register answered 400 ends in this step
FailedAuth ==
    /\ Completes
    /\ \/ last'.req.kind = "login" /\ last'.resp.status = 401
       \/ last'.req.kind = "register" /\ last'.resp.status = 400

\* a login or register is received and put in flight in this step
AuthReceived ==
    /\ budget' = budget - 1
    /\ \E r \in ReqIds : /\ reqs'[r] # reqs[r]
                         /\ reqs'[r].kind \in {"login", "register"}

\* C18: the step in which a login is answered 401 or a register is
\* answered 400 leaves every session, the credential store and all stored
\* files as they were.
C18_FailureFrame ==
    [][FailedAuth =>
          /\ sessions' = sessions
          /\ usersFile' = usersFile
          /\ objects' = objects]_vars

\* C18, amended: no step of a failed login or register (its reception, and
\* the step that answers 401 or 400) changes a session or a stored file,
\* and none adds, changes or removes a user record; the only write is the
\* creation of the credential file with the default account when the
\* request is the first to access it.
C18_FailureFrameLazy ==
    [][(FailedAuth \/ AuthReceived) =>
          /\ sessions' = sessions
          /\ objects' = objects
          /\ usersFile.exists => usersFile' = usersFile
          /\ ~usersFile.exists =>
                /\ usersFile'.exists
                /\ DOMAIN usersFile'.users = {ADMIN}
                /\ Compare(PW_R, usersFile'.users[ADMIN])]_vars

\* a login with a wrong password for a known user was answered 401 on a
\* session that was authenticated and kept its identity
C18_Witness ==
    /\ last.req.kind = "login"
    /\ last.resp.status = 401
    /\ last.req.known
    /\ last.req.user.bound
    /\ last.req.user.username # last.req.username
    /\ sessions[last.req.sid] = last.req.user

====
